---- MODULE Spec2Model ----
(***************************************************************************)
(* Model of src/database_connector.rs: the MongoDBClient adapter (init,    *)
(* find_one_document) over the MongoDB driver.  The driver and the server  *)
(* are the environment: the server holds `store`, the driver answers a     *)
(* find_one with Ok(Some(doc)), Ok(None) or Err(e).                        *)
(***************************************************************************)
EXTENDS Integers, FiniteSets, Sequences, TLC

\* ---- bounds ----
\* number of documents the seeding step may import before the client is built
MaxDocs == 2
\* number of find_one_document calls (each runs as its own async task)
MaxCalls == 2

\* ---- Option<T> and Result<T, E> ----
None == [some |-> FALSE]
Some(v) == [some |-> TRUE, val |-> v]
Ok(v) == [ok |-> TRUE, val |-> v]
Err(e) == [ok |-> FALSE, err |-> e]

\* ---- inputs ----
\* connection strings: the one the tests build, one of a port nobody listens
\* on, one that ClientOptions::parse rejects
LiveUri == "mongodb://0.0.0.0:27017"
DeadUri == "mongodb://0.0.0.0:9"
BadUri == "0.0.0.0:27017"
Uris == {LiveUri, DeadUri, BadUri}
\* ClientOptions::parse(&uri): Ok for a mongodb:// connection string
ParseOk(uri) == uri \in {LiveUri, DeadUri}
\* whether a server answers on the endpoint of the URI
Reachable(uri) == uri = LiveUri

DbNames == {"users", "admin"}
CollNames == {"profiles", "archive"}
Fields == {"name", "age", "location"}
\* the collections the seeding script imports into
SeedPlaces == { <<"users", "profiles">>, <<"users", "archive">>, <<"admin", "profiles">> }

\* stored documents: the two of the tests and one without an age
DocPool ==
  { [id |-> 1, name |-> "oliver.bannister", age |-> 24, location |-> "Toronto"],
    [id |-> 2, name |-> "john.doe", age |-> 35, location |-> "London"],
    [id |-> 3, name |-> "john.doe", location |-> "London"] }

\* doc! { "name": .., "age": .., "location": .. } of a document's values
FullFilter(d) == [name |-> d.name, age |-> d.age, location |-> d.location]

\* the calls made: collection name, query (impl Into<Option<Document>>: a filter
\* document or none) and the type parameter T
CallArgs ==
  { [coll |-> "profiles", query |-> Some(FullFilter(d)), ty |-> "Document"] :
      d \in { p \in DocPool : Fields \subseteq DOMAIN p } }
  \cup { [coll |-> "profiles", query |-> Some([location |-> "London"]), ty |-> "Profile"],
         [coll |-> "archive", query |-> None, ty |-> "Profile"] }

Tasks == 1 .. MaxCalls

VARIABLES
  phase,      \* "arrange" before init, "connected" after it, "aborted" on panic
  store,      \* server content: store[db][coll] is a set of documents
  init_args,  \* the arguments of the init call, None before it
  db,         \* the MongoDBClient value, None while none exists
  tasks,      \* tasks[t]: one find_one_document call
  stdout,     \* lines printed, in order
  raced       \* whether a call was started while another awaited the driver

vars == <<phase, store, init_args, db, tasks, stdout, raced>>

Idle == [pc |-> "idle"]

\* ---- the driver and the server ----
\* a filter document matches the documents holding each of its fields with
\* an equal value; no filter matches every document
Matches(d, query) ==
  \/ ~query.some
  \/ \A f \in DOMAIN query.val : f \in DOMAIN d /\ d[f] = query.val[f]

\* deserialization of a stored document into T
Decode(ty, d) ==
  IF ty = "Document" THEN Ok(d)
  ELSE IF Fields \subseteq DOMAIN d
       THEN Ok([name |-> d.name, age |-> d.age, location |-> d.location])
       ELSE Err("decode")

\* outcomes of collection.find_one(query, None) through connection handle
\* client, for the request req = [db, coll, filter, ty]
FindOne(client, req) ==
  IF ~Reachable(client) THEN { Err("server selection") }
  ELSE LET found == { d \in store[req.db][req.coll] : Matches(d, req.filter) }
       IN  { Err("io") }
           \cup (IF found = {} THEN { Ok(None) }
                 ELSE { IF Decode(req.ty, d).ok THEN Ok(Some(Decode(req.ty, d).val))
                        ELSE Decode(req.ty, d) : d \in found })

\* the returned value as it would be if an empty result were replaced by a
\* default-valued object
UnwrapOrDefault(r) ==
  IF ~r.ok THEN None
  ELSE IF r.val.some THEN r.val
  ELSE Some([name |-> "", age |-> 0, location |-> ""])

\* result.unwrap_or_else(|err| { println!(..); None })
UnwrapOrElse(r) == IF r.ok THEN r.val ELSE None

Init ==
  /\ phase = "arrange"
  /\ store = [d \in DbNames |-> [c \in CollNames |-> {}]]
  /\ init_args = None
  /\ db = None
  /\ tasks = [t \in Tasks |-> Idle]
  /\ stdout = <<>>
  /\ raced = FALSE

StoredCount ==
  LET pairs == { <<d, c, doc>> \in DbNames \X CollNames \X DocPool : doc \in store[d][c] }
  IN  Cardinality(pairs)

\* the seeding script run before init: one document imported into dbn.coll
populate_test_data(dbn, coll, doc) ==
  /\ phase = "arrange"
  /\ StoredCount < MaxDocs
  /\ \A d \in store[dbn][coll] : d.id # doc.id
  /\ store' = [store EXCEPT ![dbn][coll] = @ \cup {doc}]
  /\ UNCHANGED <<phase, init_args, db, tasks, stdout, raced>>

\* init as it would be if a failed Client::with_options were not fatal
init_lenient(uri, name, handle_ok) ==
  /\ phase = "arrange"
  /\ init_args' = Some([uri |-> uri, name |-> name, handle_ok |-> handle_ok])
  /\ IF ParseOk(uri)
     THEN /\ db' = Some([client |-> uri, db_name |-> name])
          /\ phase' = "connected"
     ELSE /\ db' = None
          /\ phase' = "aborted"
  /\ UNCHANGED <<store, tasks, stdout, raced>>

\* init as it would be if it pinged the server and expected an answer
init_ping(uri, name, handle_ok) ==
  /\ phase = "arrange"
  /\ init_args' = Some([uri |-> uri, name |-> name, handle_ok |-> handle_ok])
  /\ IF ParseOk(uri) /\ handle_ok /\ Reachable(uri)
     THEN /\ db' = Some([client |-> uri, db_name |-> name])
          /\ phase' = "connected"
     ELSE /\ db' = None
          /\ phase' = "aborted"
  /\ UNCHANGED <<store, tasks, stdout, raced>>

\* MongoDBClient::init(uri, name); handle_ok: Client::with_options succeeds
init(uri, name, handle_ok) ==
  /\ phase = "arrange"
  /\ init_args' = Some([uri |-> uri, name |-> name, handle_ok |-> handle_ok])
  /\ IF ParseOk(uri) /\ handle_ok
     THEN /\ db' = Some([client |-> uri, db_name |-> name])
          /\ phase' = "connected"
     ELSE /\ db' = None
          /\ phase' = "aborted"
  /\ UNCHANGED <<store, tasks, stdout, raced>>

\* calls awaiting the driver
InFlight == { t \in Tasks : tasks[t].pc = "await" }

\* the call as it would be if find_one were given no filter
find_one_document_no_filter(t, collection_name, query, ty) ==
  /\ phase = "connected"
  /\ db.some
  /\ tasks[t].pc = "idle"
  /\ \A u \in Tasks : u < t => tasks[u].pc # "idle"
  /\ tasks' = [tasks EXCEPT ![t] =
       [pc |-> "await", coll |-> collection_name, query |-> query, ty |-> ty,
        req |-> [db |-> db.val.db_name, coll |-> collection_name,
                 filter |-> None, ty |-> ty],
        queries |-> 1]]
  /\ raced' = (raced \/ InFlight # {})
  /\ UNCHANGED <<phase, store, init_args, db, stdout>>

\* the call as it would be if the database name were the literal of the tests
find_one_document_fixed_db(t, collection_name, query, ty) ==
  /\ phase = "connected"
  /\ db.some
  /\ tasks[t].pc = "idle"
  /\ \A u \in Tasks : u < t => tasks[u].pc # "idle"
  /\ tasks' = [tasks EXCEPT ![t] =
       [pc |-> "await", coll |-> collection_name, query |-> query, ty |-> ty,
        req |-> [db |-> "users", coll |-> collection_name,
                 filter |-> query, ty |-> ty],
        queries |-> 1]]
  /\ raced' = (raced \/ InFlight # {})
  /\ UNCHANGED <<phase, store, init_args, db, stdout>>

\* the call as it would be if the client kept the last query
find_one_document_retain(t, collection_name, query, ty) ==
  /\ phase = "connected"
  /\ db.some
  /\ tasks[t].pc = "idle"
  /\ \A u \in Tasks : u < t => tasks[u].pc # "idle"
  /\ tasks' = [tasks EXCEPT ![t] =
       [pc |-> "await", coll |-> collection_name, query |-> query, ty |-> ty,
        req |-> [db |-> db.val.db_name, coll |-> collection_name,
                 filter |-> query, ty |-> ty],
        queries |-> 1]]
  /\ raced' = (raced \/ InFlight # {})
  /\ db' = Some([client |-> db.val.client, db_name |-> db.val.db_name,
                 last_query |-> query])
  /\ UNCHANGED <<phase, store, init_args, stdout>>

\* find_one_document up to the await: the collection handle is resolved from
\* self.db_name and collection_name, and the query is handed to the driver.
\* Task numbers only name the calls, so calls are numbered in the order they
\* start; they complete in any order.
find_one_document(t, collection_name, query, ty) ==
  /\ phase = "connected"
  /\ db.some
  /\ tasks[t].pc = "idle"
  /\ \A u \in Tasks : u < t => tasks[u].pc # "idle"
  /\ tasks' = [tasks EXCEPT ![t] =
       [pc |-> "await", coll |-> collection_name, query |-> query, ty |-> ty,
        req |-> [db |-> db.val.db_name, coll |-> collection_name,
                 filter |-> query, ty |-> ty],
        queries |-> 1]]
  /\ raced' = (raced \/ InFlight # {})
  /\ UNCHANGED <<phase, store, init_args, db, stdout>>

\* the return as it would be with result.unwrap(): an Err panics
find_one_return_unwrap(t, r) ==
  /\ phase = "connected"
  /\ db.some
  /\ tasks[t].pc = "await"
  /\ r \in FindOne(db.val.client, tasks[t].req)
  /\ tasks' = [tasks EXCEPT ![t] =
       [pc |-> "done", coll |-> @.coll, query |-> @.query, ty |-> @.ty,
        req |-> @.req, queries |-> @.queries,
        driver |-> r, result |-> UnwrapOrElse(r)]]
  /\ phase' = IF r.ok THEN phase ELSE "aborted"
  /\ UNCHANGED <<store, init_args, db, stdout, raced>>

\* the return as it would be if the answer of any call in flight were taken
find_one_return_mixed(t, r) ==
  /\ phase = "connected"
  /\ db.some
  /\ tasks[t].pc = "await"
  /\ \E u \in InFlight : r \in FindOne(db.val.client, tasks[u].req)
  /\ tasks' = [tasks EXCEPT ![t] =
       [pc |-> "done", coll |-> @.coll, query |-> @.query, ty |-> @.ty,
        req |-> @.req, queries |-> @.queries,
        driver |-> r, result |-> UnwrapOrElse(r)]]
  /\ stdout' = IF r.ok THEN stdout ELSE Append(stdout, [call |-> t, line |-> r.err])
  /\ UNCHANGED <<phase, store, init_args, db, raced>>

\* the return as it would be if a failed query were issued once more
find_one_return_retry(t, r) ==
  /\ phase = "connected"
  /\ db.some
  /\ tasks[t].pc = "await"
  /\ r \in FindOne(db.val.client, tasks[t].req)
  /\ IF ~r.ok /\ tasks[t].queries = 1
     THEN /\ tasks' = [tasks EXCEPT ![t].queries = 2]
          /\ stdout' = Append(stdout, [call |-> t, line |-> r.err])
     ELSE /\ tasks' = [tasks EXCEPT ![t] =
               [pc |-> "done", coll |-> @.coll, query |-> @.query, ty |-> @.ty,
                req |-> @.req, queries |-> @.queries,
                driver |-> r, result |-> UnwrapOrElse(r)]]
          /\ stdout' = IF r.ok THEN stdout
                       ELSE Append(stdout, [call |-> t, line |-> r.err])
  /\ UNCHANGED <<phase, store, init_args, db, raced>>

\* the return as it would be with find_one_and_delete in place of find_one
find_one_return_delete(t, r) ==
  /\ phase = "connected"
  /\ db.some
  /\ tasks[t].pc = "await"
  /\ r \in FindOne(db.val.client, tasks[t].req)
  /\ tasks' = [tasks EXCEPT ![t] =
       [pc |-> "done", coll |-> @.coll, query |-> @.query, ty |-> @.ty,
        req |-> @.req, queries |-> @.queries,
        driver |-> r, result |-> UnwrapOrElse(r)]]
  /\ stdout' = IF r.ok THEN stdout ELSE Append(stdout, [call |-> t, line |-> r.err])
  /\ store' = IF r.ok /\ r.val.some
              THEN [store EXCEPT ![tasks[t].req.db][tasks[t].req.coll] =
                      { d \in @ : Decode(tasks[t].req.ty, d) # Ok(r.val.val) }]
              ELSE store
  /\ UNCHANGED <<phase, init_args, db, raced>>

\* find_one_document from the await on: the driver's result r arrives and
\* unwrap_or_else turns it into the returned value
find_one_return(t, r) ==
  /\ phase = "connected"
  /\ db.some
  /\ tasks[t].pc = "await"
  /\ r \in FindOne(db.val.client, tasks[t].req)
  /\ tasks' = [tasks EXCEPT ![t] =
       [pc |-> "done", coll |-> @.coll, query |-> @.query, ty |-> @.ty,
        req |-> @.req, queries |-> @.queries,
        driver |-> r, result |-> UnwrapOrElse(r)]]
  /\ stdout' = IF r.ok THEN stdout ELSE Append(stdout, [call |-> t, line |-> r.err])
  /\ UNCHANGED <<phase, store, init_args, db, raced>>

\* the values a find_one can resolve to
DriverResults ==
  { Err(e) : e \in {"server selection", "io", "decode"} }
  \cup { Ok(None) }
  \cup { Ok(Some(Decode(ty, d).val)) : ty \in {"Document", "Profile"},
                                     d \in { p \in DocPool : Fields \subseteq DOMAIN p } }
  \cup { Ok(Some(d)) : d \in DocPool }

Next ==
  \/ \E place \in SeedPlaces, doc \in DocPool :
       populate_test_data(place[1], place[2], doc)
  \/ \E uri \in Uris, name \in DbNames, handle_ok \in BOOLEAN :
       init(uri, name, handle_ok)
  \/ \E t \in Tasks, a \in CallArgs :
       find_one_document(t, a.coll, a.query, a.ty)
  \/ \E t \in Tasks, r \in DriverResults : find_one_return(t, r)

Spec == Init /\ [][Next]_vars

\* ---- properties ----

\* C1: a call whose query succeeded and whose filter names exactly the three
\* field values of a document d stored in the named collection returns
\* Some(document) with name, age and location equal to d's
RoundTrip ==
  \A t \in Tasks :
    (tasks[t].pc = "done" /\ tasks[t].driver.ok) =>
      \A d \in store[db.val.db_name][tasks[t].coll] :
        (Fields \subseteq DOMAIN d /\ tasks[t].query = Some(FullFilter(d))) =>
          /\ tasks[t].result.some
          /\ \A f \in Fields : /\ f \in DOMAIN tasks[t].result.val
                              /\ tasks[t].result.val[f] = d[f]

RoundTripWitness ==
  \E t \in Tasks :
    /\ tasks[t].pc = "done" /\ tasks[t].driver.ok
    /\ Cardinality(store[db.val.db_name][tasks[t].coll]) >= 2
    /\ \E d \in store[db.val.db_name][tasks[t].coll] :
         Fields \subseteq DOMAIN d /\ tasks[t].query = Some(FullFilter(d))

\* C2: a call whose driver query failed printed the failure, returned None
\* (the value returned when nothing matches) and did not panic
ErrorSwallowed ==
  \A t \in Tasks :
    (tasks[t].pc = "done" /\ ~tasks[t].driver.ok) =>
      /\ tasks[t].result = None
      /\ tasks[t].result = UnwrapOrElse(Ok(None))
      /\ phase = "connected"
      /\ \E i \in DOMAIN stdout :
           stdout[i] = [call |-> t, line |-> tasks[t].driver.err]

ErrorSwallowedWitness ==
  \E t \in Tasks :
    /\ tasks[t].pc = "done" /\ ~tasks[t].driver.ok
    /\ \E d \in store[db.val.db_name][tasks[t].coll] : Matches(d, tasks[t].query)

\* C3: a call whose filter no stored document of the named collection
\* satisfies returns None, and the process is not aborted
Absence ==
  \A t \in Tasks :
    (/\ tasks[t].pc = "done"
     /\ \A d \in store[db.val.db_name][tasks[t].coll] : ~Matches(d, tasks[t].query)) =>
      /\ tasks[t].result = None
      /\ phase = "connected"

AbsenceWitness ==
  \E t \in Tasks :
    /\ tasks[t].pc = "done" /\ tasks[t].driver.ok
    /\ store[db.val.db_name][tasks[t].coll] # {}
    /\ \A d \in store[db.val.db_name][tasks[t].coll] : ~Matches(d, tasks[t].query)

\* C4: a returned document is the decoding of a document stored in the named
\* collection of the client's database that satisfies the filter
FilterSelectivity ==
  \A t \in Tasks :
    (tasks[t].pc = "done" /\ tasks[t].result.some) =>
      \E d \in store[db.val.db_name][tasks[t].coll] :
        /\ Matches(d, tasks[t].query)
        /\ Decode(tasks[t].ty, d) = Ok(tasks[t].result.val)

FilterSelectivityWitness ==
  \E t \in Tasks :
    /\ tasks[t].pc = "done" /\ tasks[t].result.some /\ tasks[t].query.some
    /\ \E b \in store[db.val.db_name][tasks[t].coll] : ~Matches(b, tasks[t].query)

\* C5: an init whose URI does not parse or whose handle cannot be built
\* aborts and leaves no client; a client exists, and calls are made on it,
\* only after an init that succeeded at both steps
FailFastInit ==
  /\ (init_args.some /\ ~(ParseOk(init_args.val.uri) /\ init_args.val.handle_ok)) =>
       (phase = "aborted" /\ ~db.some)
  /\ db.some =>
       (init_args.some /\ ParseOk(init_args.val.uri) /\ init_args.val.handle_ok)
  /\ \A t \in Tasks : tasks[t].pc # "idle" =>
       (db.some /\ ParseOk(init_args.val.uri) /\ init_args.val.handle_ok)

FailFastInitWitness ==
  /\ phase = "aborted"
  /\ init_args.some
  /\ ParseOk(init_args.val.uri) /\ ~init_args.val.handle_ok

ClientImmutable ==
  /\ [](/\ db.some =>
          /\ db.val = [client |-> init_args.val.uri, db_name |-> init_args.val.name]
          /\ DOMAIN db.val = {"client", "db_name"}
        /\ \A t \in Tasks : tasks[t].pc # "idle" =>
             tasks[t].req.db = init_args.val.name)
  /\ [][db.some => db' = db]_vars

ClientImmutableWitness ==
  /\ db.some
  /\ \E t1, t2 \in Tasks :
       /\ tasks[t1].pc = "done" /\ tasks[t1].result.some
       /\ tasks[t2].pc = "done" /\ ~tasks[t2].driver.ok

\* C8: under every interleaving each call returns what it would return
\* alone (what it got is an outcome of its own request, its result follows
\* from that outcome only, the client is as init built it), and no step of
\* another call changes a completed call
ConcurrentIndependence ==
  /\ [](\A t \in Tasks :
          tasks[t].pc = "done" =>
            /\ tasks[t].driver \in
                 FindOne(init_args.val.uri,
                         [db |-> init_args.val.name, coll |-> tasks[t].coll,
                          filter |-> tasks[t].query, ty |-> tasks[t].ty])
            /\ tasks[t].driver.ok => tasks[t].result = tasks[t].driver.val
            /\ ~tasks[t].driver.ok => tasks[t].result = None
            /\ db = Some([client |-> init_args.val.uri,
                          db_name |-> init_args.val.name]))
  /\ [][\A t \in Tasks : tasks[t].pc = "done" => tasks'[t] = tasks[t]]_vars

ConcurrentIndependenceWitness ==
  /\ raced
  /\ \E t1, t2 \in Tasks :
       /\ t1 < t2
       /\ tasks[t1].pc = "done" /\ tasks[t2].pc = "done"
       /\ tasks[t1].req # tasks[t2].req
       /\ tasks[t2].result.some /\ ~tasks[t1].driver.ok
       /\ stdout # <<>>

\* C9: an init given a well-formed URI returns a client whether or not the
\* endpoint answers, and every call completed on a client of an unreachable
\* endpoint returned None without aborting
UnreachableEndpoint ==
  /\ (init_args.some /\ ParseOk(init_args.val.uri) /\ init_args.val.handle_ok) =>
       (db.some /\ phase = "connected")
  /\ (db.some /\ ~Reachable(db.val.client)) =>
       \A t \in Tasks : tasks[t].pc = "done" =>
         (tasks[t].result = None /\ phase = "connected")

UnreachableEndpointWitness ==
  /\ db.some /\ ~Reachable(db.val.client)
  /\ \E t \in Tasks :
       /\ tasks[t].pc = "done"
       /\ \E d \in store[db.val.db_name][tasks[t].coll] : Matches(d, tasks[t].query)

\* C10: a call in flight has issued one query and printed nothing; a
\* completed call has issued one query and printed one line if that query
\* failed, none if it succeeded
NoRetryLogOnError ==
  \A t \in Tasks :
    LET lines == Cardinality({ i \in DOMAIN stdout : stdout[i].call = t })
    IN  /\ tasks[t].pc = "idle" => lines = 0
        /\ tasks[t].pc = "await" => (tasks[t].queries = 1 /\ lines = 0)
        /\ tasks[t].pc = "done" =>
             /\ tasks[t].queries = 1
             /\ lines = IF tasks[t].driver.ok THEN 0 ELSE 1

NoRetryLogOnErrorWitness ==
  \E t1, t2 \in Tasks :
    /\ tasks[t1].pc = "done" /\ ~tasks[t1].driver.ok
    /\ tasks[t2].pc = "done" /\ tasks[t2].driver.ok /\ ~tasks[t2].result.some
    /\ Len(stdout) = 1
====
